---- MODULE Spec2Model ----
(***************************************************************************)
(* A model of the masked adjacency views of util/filtered_graph.hpp        *)
(* (FilteredGraphImpl over a StaticGraph and over a DynamicGraph).         *)
(* contractor/graph_contractor.hpp only declares contractGraph; its body   *)
(* is not among the sources and is not modelled.                           *)
(*                                                                         *)
(* Reading conventions for filtered_graph.hpp:                             *)
(*  - the dynamic-mode class asserts edge_filter[e] (lines 182, 188, 194)  *)
(*    but declares no member edge_filter: the header builds only with      *)
(*    BOOST_ASSERT compiled out.  That build is the one modelled, for both *)
(*    classes: no accessor and no constructor carries a check, and every   *)
(*    call returns ([failed |-> FALSE]).                                   *)
(*  - FindEdge calls GetTarge(edge) (lines 74, 210); no such member        *)
(*    exists, it is read as GetTarget(edge).                               *)
(*  - the dynamic-mode range predicate (line 202) is                       *)
(*    GetEdgeData(edge).filter with the view's own GetEdgeData, which      *)
(*    returns the payload (graph.GetEdgeData(e).data): the predicate reads *)
(*    a member .filter of the payload EdgeDataT, never the embedded mask   *)
(*    bit.  The class therefore builds only over payloads with a .filter   *)
(*    member.                                                              *)
(***************************************************************************)
EXTENDS Integers, Sequences, FiniteSets, TLC

\* ---------------------------------------------------------------- bounds
MaxNodes == 3
MaxEdges == 2

\* ------------------------------------------------------------- constants
\* util/typedefs.hpp is not among the sources: both sentinels are the
\* largest 32-bit unsigned value (all bits set, written here as that bit
\* pattern's signed reading, ids being only compared for equality), the
\* invalid weight the largest 32-bit signed value.
SPECIAL_EDGEID == -1
SPECIAL_NODEID == -1
INVALID_EDGE_WEIGHT == 2147483647

Nodes == 0 .. (MaxNodes - 1)
Weights == {1, 2, INVALID_EDGE_WEIGHT}

\* The edge payload (EdgeDataT): FindSmallestEdge requires a .weight
\* member; the dynamic-mode range predicate also a .filter member.
EdgeData == [weight : Weights]

EdgeDataHavingFilter == [weight : Weights, filter : BOOLEAN]

\* An edge of the store: source node, target node and the payload.
EdgeArrayEntry(Data) == [source : Nodes, target : Nodes, data : Data]

\* The outcome of a call: the returned value; failed tells whether an
\* assertion ended the call, which no call of this build does.
Ok(v) == [failed |-> FALSE, val |-> v]

VARIABLES
  pc,        \* "store": no view yet; "view": view constructed; "returned"
  store,     \* the adjacency store under the view, without mask (edge id e is
             \* store[e+1]): handed to the constructor, renumbered with the view
  view,      \* the masked view: [mode, graph, edge_filter]
  input,     \* the constructor's argument (vector, edge predicate or node
             \* predicate; a node predicate is kept in the current node ids)
  call       \* the last operation: its name, arguments and outcome

view_vars == <<store, view, input, call>>

vars == <<pc, view_vars>>

\* ------------------------------------------------------ adjacency store
\* StaticGraph / DynamicGraph keep a node's edges contiguous and in id order.
IsSortedBySource(es) ==
  \A i \in 1 .. (Len(es) - 1) : es[i].source <= es[i + 1].source

StoresOf(Data) ==
  UNION {{es \in [1 .. m -> EdgeArrayEntry(Data)] : IsSortedBySource(es)} :
           m \in 0 .. MaxEdges}

\* A store holds payloads of one type.
Stores == StoresOf(EdgeData) \cup StoresOf(EdgeDataHavingFilter)

NumberOfEdges(g) == Len(g)

EdgeIds(g) == 0 .. (Len(g) - 1)

\* Whether the payload type of the store has a .filter member.
HasFilterMember(g) == \A e \in EdgeIds(g) : "filter" \in DOMAIN g[e + 1].data

RECURSIVE irange(_, _)
irange(lo, hi) == IF lo >= hi THEN <<>> ELSE <<lo>> \o irange(lo + 1, hi)

BeginEdges(g, n) == Cardinality({e \in EdgeIds(g) : g[e + 1].source < n})

EndEdges(g, n) == Cardinality({e \in EdgeIds(g) : g[e + 1].source <= n})

StoreAdjacentEdgeRange(g, n) == irange(BeginEdges(g, n), EndEdges(g, n))

StoreGetTarget(g, e) == g[e + 1].target

StoreGetEdgeData(g, e) == g[e + 1].data

\* The edges of the nodes in the sequence nodes, node by node, each node's
\* edges in their former order, with the endpoints renamed.
RECURSIVE RenumberedEdges(_, _, _)
RenumberedEdges(g, old_to_new_node, nodes) ==
  IF nodes = <<>> THEN <<>>
  ELSE LET old == CHOOSE m \in Nodes : old_to_new_node[m] = Head(nodes)
           moved == [i \in 1 .. Len(StoreAdjacentEdgeRange(g, old)) |->
                       LET e == g[StoreAdjacentEdgeRange(g, old)[i] + 1]
                       IN  [e EXCEPT !.source = old_to_new_node[e.source],
                                     !.target = old_to_new_node[e.target]]]
       IN  moved \o RenumberedEdges(g, old_to_new_node, Tail(nodes))

\* Graph::Renumber(old_to_new_node): the nodes renamed, the edge array
\* rebuilt in the order of the new node ids.
StoreRenumber(g, old_to_new_node) ==
  RenumberedEdges(g, old_to_new_node, irange(0, MaxNodes))

\* The arguments of Renumber: the permutations of the node ids.
NodePermutations == {q \in [Nodes -> Nodes] : \A n \in Nodes : \E m \in Nodes : q[m] = n}

\* A node predicate of the old node ids, as a predicate of the new ones.
RenumberedPredicate(filter, old_to_new_node) ==
  [n \in Nodes |-> filter[CHOOSE m \in Nodes : old_to_new_node[m] = n]]

\* ------------------------------------------- static mode (external mask)
\* FilteredGraphImpl<StaticGraph>: v.graph is the store, v.edge_filter the
\* bit-per-edge vector (edge id e is v.edge_filter[e+1]).

S_Filter(v, e) == v.edge_filter[e + 1]

S_GetNumberOfEdges(v) == NumberOfEdges(v.graph)

RECURSIVE count_if(_, _)
count_if(range, ef) ==
  IF range = <<>> THEN 0
  ELSE (IF ef[Head(range) + 1] THEN 1 ELSE 0) + count_if(Tail(range), ef)

S_GetOutDegree(v, n) == count_if(StoreAdjacentEdgeRange(v.graph, n), v.edge_filter)

\* GetTarget: the assertion is compiled out, the store's target is returned.
S_GetTarget(v, e) == Ok(StoreGetTarget(v.graph, e))

\* GetEdgeData: the assertion is compiled out, the payload is returned.
S_GetEdgeData(v, e) == Ok(StoreGetEdgeData(v.graph, e))

\* boost::adaptors::filtered over the store's range: the predicate is
\* evaluated edge by edge as the range is walked.
RECURSIVE S_Filtered(_, _)
S_Filtered(v, range) ==
  IF range = <<>> THEN <<>>
  ELSE IF S_Filter(v, Head(range))
       THEN <<Head(range)>> \o S_Filtered(v, Tail(range))
       ELSE S_Filtered(v, Tail(range))

S_GetAdjacentEdgeRange(v, n) == Ok(S_Filtered(v, StoreAdjacentEdgeRange(v.graph, n)))

\* The loop of FindEdge over an already filtered range.
RECURSIVE S_FindEdgeIn(_, _, _)
S_FindEdgeIn(v, range, to) ==
  IF range = <<>> THEN Ok(SPECIAL_EDGEID)
  ELSE LET edge == Head(range)
       IN  IF to = S_GetTarget(v, edge).val THEN Ok(edge)
           ELSE S_FindEdgeIn(v, Tail(range), to)

S_FindEdge(v, from, to) == S_FindEdgeIn(v, S_GetAdjacentEdgeRange(v, from).val, to)

\* The loop of FindSmallestEdge: acc is <<smallest_edge, smallest_weight>>,
\* filter the caller's predicate on the edge payload.
RECURSIVE S_FindSmallestIn(_, _, _, _, _)
S_FindSmallestIn(v, range, to, filter, acc) ==
  IF range = <<>> THEN Ok(acc[1])
  ELSE LET edge == Head(range)
           target == S_GetTarget(v, edge).val
           data == S_GetEdgeData(v, edge).val
       IN  IF target = to /\ data.weight < acc[2] /\ filter[data]
           THEN S_FindSmallestIn(v, Tail(range), to, filter, <<edge, data.weight>>)
           ELSE S_FindSmallestIn(v, Tail(range), to, filter, acc)

S_FindSmallestEdge(v, from, to, filter) ==
  S_FindSmallestIn(v, S_GetAdjacentEdgeRange(v, from).val, to, filter,
                   <<SPECIAL_EDGEID, INVALID_EDGE_WEIGHT>>)

\* A lookup without the fallback to the opposite direction.
S_FindEdgeInEitherDirection_NoFallback(v, from, to) == S_FindEdge(v, from, to)

S_FindEdgeInEitherDirection(v, from, to) ==
  LET tmp == S_FindEdge(v, from, to)
  IN  IF SPECIAL_NODEID # tmp.val THEN tmp ELSE S_FindEdge(v, to, from)

\* Returns [failed, val, result]: result is the out-flag after the call,
\* result0 its value before.
S_FindEdgeIndicateIfReverse(v, from, to, result0) ==
  LET first == S_FindEdge(v, from, to)
  IN  IF SPECIAL_NODEID = first.val
      THEN LET second == S_FindEdge(v, to, from)
           IN  [failed |-> FALSE, val |-> second.val,
                result |-> IF SPECIAL_NODEID # second.val THEN TRUE ELSE result0]
      ELSE [failed |-> FALSE, val |-> first.val, result |-> result0]

\* FilteredGraphImpl(Graph graph, Vector<bool> edge_filter_): store and
\* vector are moved in; the assertion on the vector's size is compiled out,
\* a vector of any size is taken as it is.
S_FromVector(g, edge_filter_) ==
  Ok([mode |-> "static", graph |-> g, edge_filter |-> edge_filter_])

\* std::transform(edge_ids.begin(), edge_ids.end(), edge_filter.begin(), filter)
RECURSIVE transform(_, _, _)
transform(edge_ids, out, filter) ==
  IF edge_ids = <<>> THEN out
  ELSE transform(Tail(edge_ids), [out EXCEPT ![Head(edge_ids) + 1] = filter[Head(edge_ids)]], filter)

\* A construction whose id range starts one late, leaving edge 0 masked.
S_FromPredicate_SkipFirst(g, filter) ==
  Ok([mode |-> "static", graph |-> g,
      edge_filter |-> transform(irange(1, NumberOfEdges(g)),
                                [i \in 1 .. NumberOfEdges(g) |-> FALSE], filter)])

\* FilteredGraphImpl(Graph graph, Pred filter): a vector of edge-count
\* default (false) bits, then one predicate call per edge id.
S_FromPredicate(g, filter) ==
  Ok([mode |-> "static", graph |-> g,
      edge_filter |-> transform(irange(0, NumberOfEdges(g)),
                                [i \in 1 .. NumberOfEdges(g) |-> FALSE], filter)])

\* Renumber: the store is renumbered, the mask vector is left as it is
\* (FIXME of lines 145-146).
S_Renumber(v, old_to_new_node) ==
  [v EXCEPT !.graph = StoreRenumber(v.graph, old_to_new_node)]

\* ------------------------------------------ dynamic mode (embedded mask)
\* FilteredGraphImpl<DynamicGraph>: v.graph is the FilterGraph, whose edge
\* payload is EdgeDataWithFilter: [data |-> EdgeDataT, filter |-> bit].

EdgeDataWithFilter(data) == [data |-> data, filter |-> FALSE]

\* DynamicGraph::Transform<EdgeDataWithFilter>: every payload converted.
Transform(g) ==
  [i \in 1 .. Len(g) |-> [source |-> g[i].source, target |-> g[i].target,
                          data |-> EdgeDataWithFilter(g[i].data)]]

\* The embedded mask bit of edge e, written by the constructor (line 273).
D_Filter(v, e) == StoreGetEdgeData(v.graph, e).filter

\* GetTarget: the assertion is compiled out, the store's target is returned.
D_GetTarget(v, e) == Ok(StoreGetTarget(v.graph, e))

\* GetEdgeData: the assertion is compiled out, the payload is returned.
D_GetEdgeData(v, e) == Ok(StoreGetEdgeData(v.graph, e).data)

\* The predicate of the filtered range, GetEdgeData(edge).filter: the
\* payload's own .filter member.
D_RangePredicate(v, e) == D_GetEdgeData(v, e).val.filter

\* A full walk of the filtered range over the store's range.
RECURSIVE D_Filtered(_, _)
D_Filtered(v, range) ==
  IF range = <<>> THEN <<>>
  ELSE IF D_RangePredicate(v, Head(range))
       THEN <<Head(range)>> \o D_Filtered(v, Tail(range))
       ELSE D_Filtered(v, Tail(range))

D_GetAdjacentEdgeRange(v, n) == Ok(D_Filtered(v, StoreAdjacentEdgeRange(v.graph, n)))

\* The loop of FindEdge over the filtered range.
RECURSIVE D_FindEdgeIn(_, _, _)
D_FindEdgeIn(v, range, to) ==
  IF range = <<>> THEN Ok(SPECIAL_EDGEID)
  ELSE LET edge == Head(range)
       IN  IF to = D_GetTarget(v, edge).val THEN Ok(edge)
           ELSE D_FindEdgeIn(v, Tail(range), to)

D_FindEdge(v, from, to) == D_FindEdgeIn(v, D_GetAdjacentEdgeRange(v, from).val, to)

\* The loop of FindSmallestEdge over the filtered range; acc is
\* <<smallest_edge, smallest_weight>>.
RECURSIVE D_FindSmallestIn(_, _, _, _, _)
D_FindSmallestIn(v, range, to, filter, acc) ==
  IF range = <<>> THEN Ok(acc[1])
  ELSE LET edge == Head(range)
           target == D_GetTarget(v, edge).val
           data == D_GetEdgeData(v, edge).val
       IN  IF target = to /\ data.weight < acc[2] /\ filter[data]
           THEN D_FindSmallestIn(v, Tail(range), to, filter, <<edge, data.weight>>)
           ELSE D_FindSmallestIn(v, Tail(range), to, filter, acc)

D_FindSmallestEdge(v, from, to, filter) ==
  D_FindSmallestIn(v, D_GetAdjacentEdgeRange(v, from).val, to, filter,
                   <<SPECIAL_EDGEID, INVALID_EDGE_WEIGHT>>)

D_FindEdgeInEitherDirection(v, from, to) ==
  LET tmp == D_FindEdge(v, from, to)
  IN  IF SPECIAL_NODEID # tmp.val THEN tmp ELSE D_FindEdge(v, to, from)

D_FindEdgeIndicateIfReverse(v, from, to, result0) ==
  LET first == D_FindEdge(v, from, to)
  IN  IF SPECIAL_NODEID = first.val
      THEN LET second == D_FindEdge(v, to, from)
           IN  [failed |-> FALSE, val |-> second.val,
                result |-> IF SPECIAL_NODEID # second.val THEN TRUE ELSE result0]
      ELSE [failed |-> FALSE, val |-> first.val, result |-> result0]

\* An inner loop that does not consult the node's own validity: what the
\* mask would be if only the target's validity were written.
RECURSIVE D_MarkEdges_TargetOnly(_, _, _, _)
D_MarkEdges_TargetOnly(g, range, valid_start, filter) ==
  IF range = <<>> THEN g
  ELSE LET edge == Head(range)
           valid_target == filter[StoreGetTarget(g, edge)]
       IN  D_MarkEdges_TargetOnly([g EXCEPT ![edge + 1].data.filter = valid_target],
                                  Tail(range), valid_start, filter)

\* The constructor's inner loop: the edges of one node, valid_start fixed.
RECURSIVE D_MarkEdges(_, _, _, _)
D_MarkEdges(g, range, valid_start, filter) ==
  IF range = <<>> THEN g
  ELSE LET edge == Head(range)
           valid_target == filter[StoreGetTarget(g, edge)]
       IN  D_MarkEdges([g EXCEPT ![edge + 1].data.filter = valid_start /\ valid_target],
                       Tail(range), valid_start, filter)

\* The constructor's outer loop over the nodes.
RECURSIVE D_MarkNodes(_, _, _)
D_MarkNodes(g, nodes, filter) ==
  IF nodes = <<>> THEN g
  ELSE LET node == Head(nodes)
           valid_start == filter[node]
       IN  D_MarkNodes(D_MarkEdges(g, StoreAdjacentEdgeRange(g, node), valid_start, filter),
                       Tail(nodes), filter)

\* FilteredGraphImpl(Graph graph_, Pred filter), filter a node predicate.
D_FromPredicate(g, filter) ==
  Ok([mode |-> "dynamic", graph |-> D_MarkNodes(Transform(g), irange(0, MaxNodes), filter),
      edge_filter |-> <<>>])

\* Renumber: the store is renumbered, each edge record keeps its bit.
D_Renumber(v, old_to_new_node) ==
  [v EXCEPT !.graph = StoreRenumber(v.graph, old_to_new_node)]

\* ------------------------------------------------ the view's operations
\* Each operation of the view in use, by its mode.
GetTarget(v, e) == IF v.mode = "static" THEN S_GetTarget(v, e) ELSE D_GetTarget(v, e)

GetEdgeData(v, e) == IF v.mode = "static" THEN S_GetEdgeData(v, e) ELSE D_GetEdgeData(v, e)

GetAdjacentEdgeRange(v, n) ==
  IF v.mode = "static" THEN S_GetAdjacentEdgeRange(v, n) ELSE D_GetAdjacentEdgeRange(v, n)

FindEdge(v, from, to) ==
  IF v.mode = "static" THEN S_FindEdge(v, from, to) ELSE D_FindEdge(v, from, to)

FindSmallestEdge(v, from, to, filter) ==
  IF v.mode = "static" THEN S_FindSmallestEdge(v, from, to, filter)
  ELSE D_FindSmallestEdge(v, from, to, filter)

FindEdgeInEitherDirection(v, from, to) ==
  IF v.mode = "static" THEN S_FindEdgeInEitherDirection(v, from, to)
  ELSE D_FindEdgeInEitherDirection(v, from, to)

FindEdgeIndicateIfReverse(v, from, to, result0) ==
  IF v.mode = "static" THEN S_FindEdgeIndicateIfReverse(v, from, to, result0)
  ELSE D_FindEdgeIndicateIfReverse(v, from, to, result0)

\* The mask bit of edge e, wherever the mode keeps it.
Visible(v, e) == IF v.mode = "static" THEN S_Filter(v, e) ELSE D_Filter(v, e)

\* The caller's predicates on the edge payload: those decided by the weight.
DataPredicates ==
  {[d \in EdgeData \cup EdgeDataHavingFilter |-> q[d.weight]] : q \in [Weights -> BOOLEAN]}

\* The vectors handed to the constructor, of up to MaxEdges bits.
BoolVectors == UNION {[1 .. m -> BOOLEAN] : m \in 0 .. MaxEdges}

NoView == [mode |-> "none", graph |-> <<>>, edge_filter |-> <<>>]
NoInput == [kind |-> "none"]
NoCall == [op |-> "none"]

\* ------------------------------------------------------------- actions
Init ==
  /\ pc = "store"
  /\ store \in Stores
  /\ view = NoView
  /\ input = NoInput
  /\ call = NoCall

Constructed(r, in) ==
  /\ pc' = "view"
  /\ view' = r.val
  /\ input' = in
  /\ UNCHANGED <<store, call>>

\* The static view never reads a payload's .filter member: it is exercised
\* over the stores of plain payloads.  A vector with fewer bits than the
\* store has edges makes the later reads edge_filter[e] past its end
\* undefined: the constructor is exercised with vectors of at least
\* edge-count bits (bits beyond the edge count are never read).
ConstructFromVector ==
  /\ pc = "store"
  /\ store \in StoresOf(EdgeData)
  /\ \E edge_filter_ \in BoolVectors :
       /\ Len(edge_filter_) >= NumberOfEdges(store)
       /\ Constructed(S_FromVector(store, edge_filter_),
                      [kind |-> "vector", arg |-> edge_filter_])

ConstructFromPredicate ==
  /\ pc = "store"
  /\ store \in StoresOf(EdgeData)
  /\ \E filter \in [EdgeIds(store) -> BOOLEAN] :
       Constructed(S_FromPredicate(store, filter), [kind |-> "edge_predicate", arg |-> filter])

\* The dynamic-mode class is instantiated over payloads with a .filter member.
ConstructDynamic ==
  /\ pc = "store"
  /\ HasFilterMember(store)
  /\ \E filter \in [Nodes -> BOOLEAN] :
       Constructed(D_FromPredicate(store, filter), [kind |-> "node_predicate", arg |-> filter])

Returned(c) ==
  /\ pc' = "returned"
  /\ call' = c
  /\ UNCHANGED <<store, view, input>>

\* Renumber(old_to_new_node) of either class.
Renumber ==
  /\ pc = "view"
  /\ \E old_to_new_node \in NodePermutations :
       /\ view' = IF view.mode = "static" THEN S_Renumber(view, old_to_new_node)
                  ELSE D_Renumber(view, old_to_new_node)
       /\ store' = StoreRenumber(store, old_to_new_node)
       /\ input' = IF input.kind = "node_predicate"
                   THEN [input EXCEPT !.arg = RenumberedPredicate(input.arg, old_to_new_node)]
                   ELSE input
  /\ UNCHANGED <<pc, call>>

CallGetOutDegree ==
  /\ pc = "view" /\ view.mode = "static"
  /\ \E n \in Nodes :
       Returned([op |-> "GetOutDegree", n |-> n, failed |-> FALSE,
                 val |-> S_GetOutDegree(view, n)])

CallGetTarget ==
  /\ pc = "view"
  /\ \E e \in EdgeIds(view.graph) :
       LET r == GetTarget(view, e)
       IN  Returned([op |-> "GetTarget", e |-> e, failed |-> r.failed, val |-> r.val])

CallGetEdgeData ==
  /\ pc = "view"
  /\ \E e \in EdgeIds(view.graph) :
       LET r == GetEdgeData(view, e)
       IN  Returned([op |-> "GetEdgeData", e |-> e, failed |-> r.failed, val |-> r.val])

CallGetAdjacentEdgeRange ==
  /\ pc = "view"
  /\ \E n \in Nodes :
       LET r == GetAdjacentEdgeRange(view, n)
       IN  Returned([op |-> "GetAdjacentEdgeRange", n |-> n, failed |-> r.failed,
                     val |-> r.val])

CallFindEdge ==
  /\ pc = "view"
  /\ \E from \in Nodes, to \in Nodes :
       LET r == FindEdge(view, from, to)
       IN  Returned([op |-> "FindEdge", from |-> from, to |-> to, failed |-> r.failed,
                     val |-> r.val])

CallFindSmallestEdge ==
  /\ pc = "view"
  /\ \E from \in Nodes, to \in Nodes, filter \in DataPredicates :
       LET r == FindSmallestEdge(view, from, to, filter)
       IN  Returned([op |-> "FindSmallestEdge", from |-> from, to |-> to,
                     filter |-> filter, failed |-> r.failed, val |-> r.val])

CallFindEdgeInEitherDirection ==
  /\ pc = "view"
  /\ \E from \in Nodes, to \in Nodes :
       LET r == FindEdgeInEitherDirection(view, from, to)
       IN  Returned([op |-> "FindEdgeInEitherDirection", from |-> from, to |-> to,
                     failed |-> r.failed, val |-> r.val])

CallFindEdgeIndicateIfReverse ==
  /\ pc = "view"
  /\ \E from \in Nodes, to \in Nodes, result0 \in BOOLEAN :
       LET r == FindEdgeIndicateIfReverse(view, from, to, result0)
       IN  Returned([op |-> "FindEdgeIndicateIfReverse", from |-> from, to |-> to,
                     result0 |-> result0, failed |-> r.failed, val |-> r.val,
                     result |-> r.result])

Next ==
  \/ ConstructFromVector
  \/ ConstructFromPredicate
  \/ ConstructDynamic
  \/ Renumber
  \/ CallGetOutDegree
  \/ CallGetTarget
  \/ CallGetEdgeData
  \/ CallGetAdjacentEdgeRange
  \/ CallFindEdge
  \/ CallFindSmallestEdge
  \/ CallFindEdgeInEitherDirection
  \/ CallFindEdgeIndicateIfReverse

Spec == Init /\ [][Next]_vars

\* ------------------------------------------------- properties of the view
\* The visible edges from node a to node b, by the mask bits and the store.
VisibleEdges(v, a, b) ==
  {e \in EdgeIds(v.graph) :
     v.graph[e + 1].source = a /\ v.graph[e + 1].target = b /\ Visible(v, e)}

SetMin(S) == CHOOSE x \in S : \A y \in S : x <= y

IsLookup(op) ==
  op \in {"FindEdge", "FindSmallestEdge", "FindEdgeInEitherDirection",
          "FindEdgeIndicateIfReverse"}

\* C1: in both modes no masked edge id is returned by GetAdjacentEdgeRange or
\* by any of the four lookups; FindEdge(from,to) returns the 'no edge'
\* sentinel when every from->to edge is masked; and GetAdjacentEdgeRange(n)
\* completes its walk without failing whatever edges of n are masked.
C1_MaskedEdgeNeverReturned ==
  pc = "returned" =>
    /\ (IsLookup(call.op) /\ ~call.failed /\ call.val # SPECIAL_EDGEID)
         => Visible(view, call.val)
    /\ call.op = "GetAdjacentEdgeRange"
         => /\ ~call.failed
            /\ \A i \in 1 .. Len(call.val) : Visible(view, call.val[i])
    /\ (call.op = "FindEdge" /\ VisibleEdges(view, call.from, call.to) = {})
         => (~call.failed /\ call.val = SPECIAL_EDGEID)

\* The static-mode half of C1, which the code does satisfy.
C1_StaticMaskedEdgeNeverReturned == view.mode = "static" => C1_MaskedEdgeNeverReturned

\* C5: the static view built from an edge predicate f and the one built from
\* the explicit vector [f(0), ..., f(edgeCount-1)] report the same
\* GetOutDegree and the same GetAdjacentEdgeRange for every node, and
\* GetOutDegree(n) is the number of unmasked edges of n.
C5_PredicateViewEqualsVectorView ==
  (pc \in {"view", "returned"} /\ input.kind = "edge_predicate") =>
    LET materialized == [i \in 1 .. NumberOfEdges(store) |-> input.arg[i - 1]]
        w == S_FromVector(store, materialized)
    IN  /\ ~w.failed
        /\ \A n \in Nodes :
             /\ S_GetOutDegree(view, n) = S_GetOutDegree(w.val, n)
             /\ S_GetAdjacentEdgeRange(view, n) = S_GetAdjacentEdgeRange(w.val, n)
             /\ S_GetOutDegree(view, n) = Len(S_GetAdjacentEdgeRange(view, n).val)
             /\ S_GetOutDegree(view, n) =
                  Cardinality({e \in EdgeIds(store) :
                                 store[e + 1].source = n /\ input.arg[e]})
        /\ (pc = "returned" /\ call.op = "GetOutDegree")
             => call.val = S_GetOutDegree(w.val, call.n)
        /\ (pc = "returned" /\ call.op = "GetAdjacentEdgeRange")
             => call.val = S_GetAdjacentEdgeRange(w.val, call.n).val

\* C5's case: a predicate-built view reported the degree of a node that has
\* both a masked and an unmasked edge.
C5_Witness ==
  /\ pc = "returned" /\ input.kind = "edge_predicate" /\ call.op = "GetOutDegree"
  /\ call.val = 1
  /\ Len(StoreAdjacentEdgeRange(store, call.n)) = 2
  /\ input.arg[0]

\* C6: after the dynamic-mode constructor ran with node predicate f, the mask
\* bit of every edge equals f(source) /\ f(target), and the edge keeps the
\* store's endpoints and payload.
C6_MaskIsBothEndpointsValid ==
  (pc \in {"view", "returned"} /\ input.kind = "node_predicate") =>
    /\ NumberOfEdges(view.graph) = NumberOfEdges(store)
    /\ \A e \in EdgeIds(store) :
         /\ D_Filter(view, e) = (input.arg[store[e + 1].source] /\ input.arg[store[e + 1].target])
         /\ view.graph[e + 1].source = store[e + 1].source
         /\ view.graph[e + 1].target = store[e + 1].target
         /\ view.graph[e + 1].data.data = store[e + 1].data

\* C6's case: an edge of a valid node is visible although a node numbered
\* before it is invalid and owns a (masked) edge.
C6_Witness ==
  /\ pc = "view" /\ input.kind = "node_predicate"
  /\ \E e1 \in EdgeIds(store), e2 \in EdgeIds(store) :
       /\ store[e1 + 1].source < store[e2 + 1].source
       /\ ~input.arg[store[e1 + 1].source]
       /\ ~D_Filter(view, e1)
       /\ D_Filter(view, e2)

\* C7: in both modes GetTarget(e) and GetEdgeData(e) end in the assertion
\* failure when e is masked, and return the store's target and payload of e
\* when e is unmasked.
C7_AccessorsAssertOnMaskedEdge ==
  (pc = "returned" /\ call.op \in {"GetTarget", "GetEdgeData"}) =>
    IF Visible(view, call.e)
    THEN /\ ~call.failed
         /\ call.val = (IF call.op = "GetTarget" THEN store[call.e + 1].target
                        ELSE store[call.e + 1].data)
    ELSE call.failed

\* The half of C7 the code does satisfy (not the claim): on an unmasked edge
\* the accessors return the store's target and payload.
C7_AccessorsReturnStoreOnUnmaskedEdge ==
  (pc = "returned" /\ call.op \in {"GetTarget", "GetEdgeData"} /\ Visible(view, call.e)) =>
    /\ ~call.failed
    /\ call.val = (IF call.op = "GetTarget" THEN store[call.e + 1].target
                   ELSE store[call.e + 1].data)

\* C8: after FindEdgeIndicateIfReverse(from,to,result) returns, whatever the
\* out-flag held before, result is true exactly when no visible from->to edge
\* exists and the returned edge is a visible to->from edge.
C8_OutFlagIffReversed ==
  (pc = "returned" /\ call.op = "FindEdgeIndicateIfReverse" /\ ~call.failed) =>
    (call.result <=>
       /\ VisibleEdges(view, call.from, call.to) = {}
       /\ call.val \in VisibleEdges(view, call.to, call.from))

\* C8 for static views and callers that clear the flag before the call (not
\* the claim).
C8_StaticOutFlagIffReversedWhenCleared ==
  (pc = "returned" /\ call.op = "FindEdgeIndicateIfReverse" /\ ~call.failed
     /\ view.mode = "static" /\ ~call.result0) =>
    (call.result <=>
       /\ VisibleEdges(view, call.from, call.to) = {}
       /\ call.val \in VisibleEdges(view, call.to, call.from))

\* C9: when a visible edge joins a and b in one direction only,
\* FindEdgeInEitherDirection(a,b) and FindEdgeInEitherDirection(b,a) return
\* the same edge id; the lookup returns what FindEdge(a,b) returns unless
\* that is the sentinel, and only then what FindEdge(b,a) returns.
C9_EitherDirectionSymmetric ==
  (pc = "returned" /\ call.op = "FindEdgeInEitherDirection") =>
    LET fwd == VisibleEdges(view, call.from, call.to)
        bwd == VisibleEdges(view, call.to, call.from)
        swapped == FindEdgeInEitherDirection(view, call.to, call.from)
        forward == FindEdge(view, call.from, call.to)
        backward == FindEdge(view, call.to, call.from)
    IN  /\ ~call.failed
        /\ call.val = (IF forward.val # SPECIAL_EDGEID THEN forward.val ELSE backward.val)
        /\ ((fwd = {}) # (bwd = {}))
             => (~swapped.failed /\ swapped.val = call.val)

\* C9's case: only b->a edges are visible and the fallback found one.
C9_Witness ==
  /\ pc = "returned" /\ call.op = "FindEdgeInEitherDirection"
  /\ VisibleEdges(view, call.from, call.to) = {}
  /\ call.val \in VisibleEdges(view, call.to, call.from)

\* The stronger reading of C9 (not the claim): the lookup returns the first
\* visible a->b edge if there is one, else the first visible b->a edge, else
\* the sentinel.  It holds of the static view only.
C9_StaticEitherDirectionFindsVisible ==
  (pc = "returned" /\ call.op = "FindEdgeInEitherDirection" /\ view.mode = "static") =>
    LET fwd == VisibleEdges(view, call.from, call.to)
        bwd == VisibleEdges(view, call.to, call.from)
    IN  call.val = (IF fwd # {} THEN SetMin(fwd)
                    ELSE IF bwd # {} THEN SetMin(bwd) ELSE SPECIAL_EDGEID)

\* C10: what FindSmallestEdge(from,to,predicate) returns is the first edge of
\* minimum weight among the visible from->to edges whose payload satisfies
\* predicate, and the sentinel only when there is no such edge, for every
\* weight up to the largest representable one.
C10_SmallestEdgeIsMinimum ==
  (pc = "returned" /\ call.op = "FindSmallestEdge" /\ ~call.failed) =>
    LET cand == {e \in VisibleEdges(view, call.from, call.to) :
                   call.filter[store[e + 1].data]}
        best == {e \in cand : \A o \in cand :
                   store[e + 1].data.weight <= store[o + 1].data.weight}
    IN  call.val = (IF cand = {} THEN SPECIAL_EDGEID ELSE SetMin(best))

\* C10 for static views and weights below INVALID_EDGE_WEIGHT (not the claim).
C10_StaticSmallestEdgeBelowInvalid ==
  (pc = "returned" /\ call.op = "FindSmallestEdge" /\ view.mode = "static") =>
    LET cand == {e \in VisibleEdges(view, call.from, call.to) :
                   /\ call.filter[store[e + 1].data]
                   /\ store[e + 1].data.weight < INVALID_EDGE_WEIGHT}
        best == {e \in cand : \A o \in cand :
                   store[e + 1].data.weight <= store[o + 1].data.weight}
    IN  /\ ~call.failed
        /\ call.val = (IF cand = {} THEN SPECIAL_EDGEID ELSE SetMin(best))

====
